---- MODULE Spec2Model ----
(***************************************************************************)
(* Model of flexo_syside_lib: the reference sanitizer of utils.py          *)
(* (clean_sysml_json_for_syside with its fixpoint loop and type injector), *)
(* the import pipeline of core.py (the simpler sanitizer followed by       *)
(* _make_root_namespace_first) and its export side (the serialized         *)
(* elements wrapped as commit payload, and the committer's use of them).   *)
(*                                                                         *)
(* JSON documents are modelled by their syntax tree.  Every node is a      *)
(* record [k, s, c]: k is the JSON kind ("obj", "arr", "str", "num",       *)
(* "null"), s the text of a scalar and c the ordered children, each child  *)
(* a record [key, val] (key is "" for the items of an array).  Python      *)
(* dicts keep insertion order and json.dumps writes that order, so two     *)
(* documents serialize to the same bytes iff their trees are equal.        *)
(***************************************************************************)
EXTENDS Integers, Sequences, FiniteSets, TLC

VARIABLES
    json_text,      \* the document handed to the function under call
    preserve,       \* preserve_refs_with_uri
    entry,          \* which function the caller entered
    run,            \* 1 for the first application, 2 when re-applied to its output
    pc,             \* position inside the function
    elements,       \* the working element list
    changed,        \* loop flag
    iters,          \* loop counter (utils.py only)
    protected_ids,  \* roots computed at the start of the current iteration
    result,         \* the returned document
    err,            \* the exception raised, "none" if none
    debug,          \* the debug argument (utils.py only)
    diagnostics,    \* the kinds of line the current call has printed
    json_flexo_type,\* Python type of the json_flexo argument (core.py import only)
    sysml_out_path, \* Python type of the sysml_out_path argument (same)
    api_key,        \* api_key or FLEXO_API_KEY, "" if neither is set (committer.py only)
    project_id,     \* the project_id argument, "" for None (same)
    server,         \* the Flexo server: whether it holds a project of the given name,
                    \* and the calls it has received (same)
    created_project \* local flag of commit_sysml_to_flexo (same)

vars == <<json_text, preserve, entry, run, pc, elements, changed, iters,
          protected_ids, result, err, debug, diagnostics,
          json_flexo_type, sysml_out_path, api_key, project_id, server, created_project>>

----------------------------------------------------------------------------
(* JSON values *)

Str(t) == [k |-> "str", s |-> t, c |-> <<>>]
Num(t) == [k |-> "num", s |-> t, c |-> <<>>]
Null == [k |-> "null", s |-> "", c |-> <<>>]
KV(key, val) == [key |-> key, val |-> val]
Obj(entries) == [k |-> "obj", s |-> "", c |-> entries]
Arr(items) == [k |-> "arr", s |-> "", c |-> [i \in DOMAIN items |-> KV("", items[i])]]
Ref(id) == Obj(<<KV("@id", Str(id))>>)
UriRef(id) == Obj(<<KV("@id", Str(id)), KV("@uri", Str("u"))>>)

IsDict(v) == v.k = "obj"
IsList(v) == v.k = "arr"
IsStr(v) == v.k = "str"
HasKey(v, key) == \E i \in DOMAIN v.c : v.c[i].key = key
Get(v, key) ==
    IF IsDict(v) /\ HasKey(v, key)
    THEN v.c[CHOOSE i \in DOMAIN v.c : v.c[i].key = key].val
    ELSE Null
Items(v) == [i \in DOMAIN v.c |-> v.c[i].val]
Truthy(v) ==
    CASE v.k = "null" -> FALSE
      [] v.k = "str" -> v.s # ""
      [] v.k = "num" -> v.s # "0"
      [] OTHER -> v.c # <<>>

RECURSIVE Flatten(_)
Flatten(ss) == IF ss = <<>> THEN <<>> ELSE Head(ss) \o Flatten(Tail(ss))

----------------------------------------------------------------------------
(* utils.py: helpers of clean_sysml_json_for_syside *)

STRICT_REL_TO_DROP == {Str("Subsetting"), Str("Specialization"), Str("Subclassification")}
MEMBERSHIP_RELS == {Str("OwningMembership"), Str("FeatureMembership"),
                    Str("NamespaceMembership"), Str("Membership"),
                    Str("ParameterMembership")}
MAX_ITERS == 12

DROP == [k |-> "DROP", s |-> "", c |-> <<>>]

is_ref_dict(obj) == IsDict(obj) /\ HasKey(obj, "@id") /\ ~HasKey(obj, "@type")
has_uri(obj) == IsDict(obj) /\ HasKey(obj, "@uri")

RECURSIVE collect(_)
collect(obj) ==
    IF IsDict(obj)
    THEN (IF IsStr(Get(obj, "@id")) /\ HasKey(obj, "@type")
          THEN {Get(obj, "@id").s} ELSE {})
         \cup UNION {collect(obj.c[i].val) : i \in DOMAIN obj.c}
    ELSE IF IsList(obj)
    THEN UNION {collect(obj.c[i].val) : i \in DOMAIN obj.c}
    ELSE {}

build_defined_ids(els) == UNION {collect(els[i]) : i \in DOMAIN els}

\* "x in defined_ids" for a value x taken from the document
InIds(v, ids) == IsStr(v) /\ v.s \in ids

\* find_root_namespace_ids_syside without its test of "@type"
find_root_namespace_ids_syside_any_type(els) ==
    {Get(els[i], "@id").s : i \in {j \in DOMAIN els :
        /\ IsDict(els[j])
        /\ ~HasKey(els[j], "owningRelationship")
        /\ IsStr(Get(els[j], "@id"))}}

find_root_namespace_ids_syside(els) ==
    {Get(els[i], "@id").s : i \in {j \in DOMAIN els :
        /\ IsDict(els[j])
        /\ Get(els[j], "@type") = Str("Namespace")
        /\ ~HasKey(els[j], "owningRelationship")
        /\ IsStr(Get(els[j], "@id"))}}

RECURSIVE has_all_refs_defined(_, _)
has_all_refs_defined(obj, defined_ids) ==
    IF IsDict(obj)
    THEN /\ (HasKey(obj, "@id") /\ ~HasKey(obj, "@type"))
                => InIds(Get(obj, "@id"), defined_ids)
         /\ \A i \in DOMAIN obj.c : has_all_refs_defined(obj.c[i].val, defined_ids)
    ELSE IF IsList(obj)
    THEN \A i \in DOMAIN obj.c : has_all_refs_defined(obj.c[i].val, defined_ids)
    ELSE TRUE

ref_defined(v, defined_ids) ==
    IsDict(v) /\ HasKey(v, "@id") /\ InIds(Get(v, "@id"), defined_ids)

has_ref_key(el, name, defined_ids) == ref_defined(Get(el, name), defined_ids)

\* is_relationship_and_incomplete with "or" for "and" in the Specialization rule
is_relationship_and_incomplete_either(el, defined_ids) ==
    LET t == Get(el, "@type")
        h(name) == has_ref_key(el, name, defined_ids)
    IN  CASE t = Str("Subsetting") ->
                ~((h("specific") /\ h("general"))
                  \/ (h("subsettingFeature") /\ h("subsettedFeature")))
          [] t = Str("Specialization") -> ~(h("specific") \/ h("general"))
          [] t = Str("FeatureTyping") ->
                ~(h("typedFeature") /\ (h("type") \/ h("general")))
          [] t = Str("FeatureValue") -> ~(h("featureWithValue") /\ h("value"))
          [] t = Str("Subclassification") -> ~(h("specific") /\ h("general"))
          [] t = Str("TypeFeaturing") ->
                ~(h("typedFeature") /\ (h("type") \/ h("general")))
          [] OTHER -> FALSE

is_relationship_and_incomplete(el, defined_ids) ==
    LET t == Get(el, "@type")
        h(name) == has_ref_key(el, name, defined_ids)
    IN  CASE t = Str("Subsetting") ->
                ~((h("specific") /\ h("general"))
                  \/ (h("subsettingFeature") /\ h("subsettedFeature")))
          [] t = Str("Specialization") -> ~(h("specific") /\ h("general"))
          [] t = Str("FeatureTyping") ->
                ~(h("typedFeature") /\ (h("type") \/ h("general")))
          [] t = Str("FeatureValue") -> ~(h("featureWithValue") /\ h("value"))
          [] t = Str("Subclassification") -> ~(h("specific") /\ h("general"))
          [] t = Str("TypeFeaturing") ->
                ~(h("typedFeature") /\ (h("type") \/ h("general")))
          [] OTHER -> FALSE

\* drop_thin_dangling_refs whose step 1 lost its "@type in STRICT_REL_TO_DROP" guard
RECURSIVE drop_thin_dangling_refs_any_kind(_, _, _)
drop_thin_dangling_refs_any_kind(obj, defined_ids, keep_uri) ==
    IF IsDict(obj) /\ Get(obj, "@type") = Str("Empty")
    THEN [v |-> DROP, d |-> TRUE]
    ELSE IF /\ IsDict(obj)
            /\ HasKey(obj, "@type")
            /\ \/ is_relationship_and_incomplete(obj, defined_ids)
               \/ ~has_all_refs_defined(obj, defined_ids)
    THEN [v |-> DROP, d |-> TRUE]
    ELSE IF is_ref_dict(obj)
    THEN IF ~InIds(Get(obj, "@id"), defined_ids)
         THEN IF keep_uri /\ has_uri(obj)
              THEN [v |-> obj, d |-> FALSE]
              ELSE [v |-> DROP, d |-> TRUE]
         ELSE [v |-> obj, d |-> FALSE]
    ELSE IF IsDict(obj) \/ IsList(obj)
    THEN LET r == [i \in DOMAIN obj.c |->
                      drop_thin_dangling_refs_any_kind(obj.c[i].val, defined_ids, keep_uri)]
             kept == SelectSeq([i \in DOMAIN obj.c |-> i], LAMBDA i : r[i].v # DROP)
         IN  [v |-> [obj EXCEPT !.c = [j \in DOMAIN kept |->
                                          KV(obj.c[kept[j]].key, r[kept[j]].v)]],
              d |-> \E i \in DOMAIN obj.c : r[i].d]
    ELSE [v |-> obj, d |-> FALSE]

\* drop_thin_dangling_refs that never looks at "@uri"
RECURSIVE drop_thin_dangling_refs_no_uri(_, _, _)
drop_thin_dangling_refs_no_uri(obj, defined_ids, keep_uri) ==
    IF IsDict(obj) /\ Get(obj, "@type") = Str("Empty")
    THEN [v |-> DROP, d |-> TRUE]
    ELSE IF /\ IsDict(obj)
            /\ Get(obj, "@type") \in STRICT_REL_TO_DROP
            /\ \/ is_relationship_and_incomplete(obj, defined_ids)
               \/ ~has_all_refs_defined(obj, defined_ids)
    THEN [v |-> DROP, d |-> TRUE]
    ELSE IF is_ref_dict(obj)
    THEN IF ~InIds(Get(obj, "@id"), defined_ids)
         THEN [v |-> DROP, d |-> TRUE]
         ELSE [v |-> obj, d |-> FALSE]
    ELSE IF IsDict(obj) \/ IsList(obj)
    THEN LET r == [i \in DOMAIN obj.c |->
                      drop_thin_dangling_refs_no_uri(obj.c[i].val, defined_ids, keep_uri)]
             kept == SelectSeq([i \in DOMAIN obj.c |-> i], LAMBDA i : r[i].v # DROP)
         IN  [v |-> [obj EXCEPT !.c = [j \in DOMAIN kept |->
                                          KV(obj.c[kept[j]].key, r[kept[j]].v)]],
              d |-> \E i \in DOMAIN obj.c : r[i].d]
    ELSE [v |-> obj, d |-> FALSE]

\* drop_thin_dangling_refs that drops a dangling thin reference without raising
\* ref_drops
RECURSIVE drop_thin_dangling_refs_unflagged(_, _, _)
drop_thin_dangling_refs_unflagged(obj, defined_ids, keep_uri) ==
    IF IsDict(obj) /\ Get(obj, "@type") = Str("Empty")
    THEN [v |-> DROP, d |-> TRUE]
    ELSE IF /\ IsDict(obj)
            /\ Get(obj, "@type") \in STRICT_REL_TO_DROP
            /\ \/ is_relationship_and_incomplete(obj, defined_ids)
               \/ ~has_all_refs_defined(obj, defined_ids)
    THEN [v |-> DROP, d |-> TRUE]
    ELSE IF is_ref_dict(obj)
    THEN IF ~InIds(Get(obj, "@id"), defined_ids)
         THEN IF keep_uri /\ has_uri(obj)
              THEN [v |-> obj, d |-> FALSE]
              ELSE [v |-> DROP, d |-> FALSE]
         ELSE [v |-> obj, d |-> FALSE]
    ELSE IF IsDict(obj) \/ IsList(obj)
    THEN LET r == [i \in DOMAIN obj.c |->
                      drop_thin_dangling_refs_unflagged(obj.c[i].val, defined_ids, keep_uri)]
             kept == SelectSeq([i \in DOMAIN obj.c |-> i], LAMBDA i : r[i].v # DROP)
         IN  [v |-> [obj EXCEPT !.c = [j \in DOMAIN kept |->
                                          KV(obj.c[kept[j]].key, r[kept[j]].v)]],
              d |-> \E i \in DOMAIN obj.c : r[i].d]
    ELSE [v |-> obj, d |-> FALSE]

\* Returns [v, d]: v is the cleaned value or DROP, d is the ref_drops flag
\* this call has raised.
RECURSIVE drop_thin_dangling_refs(_, _, _)
drop_thin_dangling_refs(obj, defined_ids, keep_uri) ==
    IF IsDict(obj) /\ Get(obj, "@type") = Str("Empty")
    THEN [v |-> DROP, d |-> TRUE]
    ELSE IF /\ IsDict(obj)
            /\ Get(obj, "@type") \in STRICT_REL_TO_DROP
            /\ \/ is_relationship_and_incomplete(obj, defined_ids)
               \/ ~has_all_refs_defined(obj, defined_ids)
    THEN [v |-> DROP, d |-> TRUE]
    ELSE IF is_ref_dict(obj)
    THEN IF ~InIds(Get(obj, "@id"), defined_ids)
         THEN IF keep_uri /\ has_uri(obj)
              THEN [v |-> obj, d |-> FALSE]
              ELSE [v |-> DROP, d |-> TRUE]
         ELSE [v |-> obj, d |-> FALSE]
    ELSE IF IsDict(obj) \/ IsList(obj)
    THEN LET r == [i \in DOMAIN obj.c |->
                      drop_thin_dangling_refs(obj.c[i].val, defined_ids, keep_uri)]
             kept == SelectSeq([i \in DOMAIN obj.c |-> i], LAMBDA i : r[i].v # DROP)
         IN  [v |-> [obj EXCEPT !.c = [j \in DOMAIN kept |->
                                          KV(obj.c[kept[j]].key, r[kept[j]].v)]],
              d |-> \E i \in DOMAIN obj.c : r[i].d]
    ELSE [v |-> obj, d |-> FALSE]

----------------------------------------------------------------------------
(* utils.py: _inject_inferred_types *)

MEMBERSHIP_NAMES == MEMBERSHIP_RELS

\* Python's "a or b"
Or(a, b) == IF Truthy(a) THEN a ELSE b

_first_id(val) ==
    IF IsDict(val) /\ HasKey(val, "@id")
    THEN Get(val, "@id")
    ELSE IF IsList(val)
    THEN LET hit == {i \in DOMAIN val.c :
                        IsDict(val.c[i].val) /\ HasKey(val.c[i].val, "@id")}
         IN  IF hit = {} THEN Null
             ELSE Get(val.c[CHOOSE i \in hit : \A j \in hit : i <= j].val, "@id")
    ELSE Null

\* A dict filled by "for el in els: d[key] = value": of the positions that
\* wrote a key, the last one wins.
LastWrite(hit) == CHOOSE i \in hit : \A j \in hit : j <= i

mem_f_id(el) == Or(_first_id(Get(el, "memberElement")), _first_id(Get(el, "feature")))
mem_owner_id(el) ==
    Or(Or(_first_id(Get(el, "featuringType")), _first_id(Get(el, "owningType"))),
       _first_id(Get(el, "owningNamespace")))

\* feature_owner.get(k)
feature_owner(els, k) ==
    LET hit == {i \in DOMAIN els : /\ IsDict(els[i])
                                   /\ Get(els[i], "@type") \in MEMBERSHIP_NAMES
                                   /\ Truthy(mem_f_id(els[i]))
                                   /\ Truthy(mem_owner_id(els[i]))
                                   /\ mem_f_id(els[i]) = k}
    IN  IF hit = {} THEN Null ELSE mem_owner_id(els[LastWrite(hit)])

typ_f_id(el) == Or(_first_id(Get(el, "typedFeature")), _first_id(Get(el, "feature")))
typ_ty_id(el) ==
    Or(Or(_first_id(Get(el, "type")), _first_id(Get(el, "featuringType"))),
       _first_id(Get(el, "general")))

\* feat_to_type.get(k)
feat_to_type(els, k) ==
    LET hit == {i \in DOMAIN els : /\ IsDict(els[i])
                                   /\ Get(els[i], "@type") \in
                                         {Str("FeatureTyping"), Str("TypeFeaturing")}
                                   /\ Truthy(typ_f_id(els[i]))
                                   /\ Truthy(typ_ty_id(els[i]))
                                   /\ typ_f_id(els[i]) = k}
    IN  IF hit = {} THEN Null ELSE typ_ty_id(els[LastWrite(hit)])

\* The positions of the elements id_to_el refers to: for every @id the last
\* top-level dict that has both "@id" and "@type".
id_to_el(els) ==
    LET full == {i \in DOMAIN els :
                    IsDict(els[i]) /\ HasKey(els[i], "@id") /\ HasKey(els[i], "@type")}
    IN  {i \in full : \A j \in full : j > i => Get(els[j], "@id") # Get(els[i], "@id")}

part_def_ids(els) ==
    {Get(els[i], "@id") : i \in {j \in id_to_el(els) :
                                    Get(els[j], "@type") = Str("PartDefinition")}}

\* feat_def["type"] = {"@id": ty}
SetType(feat_def, ty) ==
    [feat_def EXCEPT !.c = Append(@, KV("type", Obj(<<KV("@id", ty)>>)))]

children_owner_id(els, feat_def) ==
    Or(Or(Or(feature_owner(els, Get(feat_def, "@id")),
             _first_id(Get(feat_def, "owningType"))),
          _first_id(Get(feat_def, "owningNamespace"))),
       _first_id(Get(feat_def, "featuringType")))

\* _inject_inferred_types whose step 3 lost its '"type" not in feat_def' test
_inject_inferred_types_overwrite(els) ==
    [i \in DOMAIN els |->
        IF i \notin id_to_el(els)
        THEN els[i]
        ELSE IF Truthy(feat_to_type(els, Get(els[i], "@id")))
        THEN IF HasKey(els[i], "type")
             THEN [els[i] EXCEPT !.c = [n \in DOMAIN @ |->
                      IF @[n].key = "type"
                      THEN KV("type", Obj(<<KV("@id", feat_to_type(els, Get(els[i], "@id")))>>))
                      ELSE @[n]]]
             ELSE SetType(els[i], feat_to_type(els, Get(els[i], "@id")))
        ELSE IF HasKey(els[i], "type")
        THEN els[i]
        ELSE IF /\ Get(els[i], "name") = Str("children")
                /\ children_owner_id(els, els[i]) \in part_def_ids(els)
        THEN SetType(els[i], children_owner_id(els, els[i]))
        ELSE els[i]]

_inject_inferred_types(els) ==
    [i \in DOMAIN els |->
        IF i \notin id_to_el(els) \/ HasKey(els[i], "type")
        THEN els[i]
        ELSE IF Truthy(feat_to_type(els, Get(els[i], "@id")))
        THEN SetType(els[i], feat_to_type(els, Get(els[i], "@id")))
        ELSE IF /\ Get(els[i], "name") = Str("children")
                /\ children_owner_id(els, els[i]) \in part_def_ids(els)
        THEN SetType(els[i], children_owner_id(els, els[i]))
        ELSE els[i]]

----------------------------------------------------------------------------
(* Bounded inputs *)

MaxLen == 2         \* longest element list drawn from the palette
MaxChain == 25      \* longest chain of Specialization elements
MaxRuns == 2        \* how often the sanitizer is applied in a row
MaxScenario == 3    \* most relationships added to the "children" scenario

El(type, id, fields) == Obj(<<KV("@type", Str(type)), KV("@id", Str(id))>> \o fields)

NsRoot == El("Namespace", "ns1", <<>>)
NsOwned == El("Namespace", "ns2", <<KV("owningRelationship", Ref("x"))>>)
ThinX == Ref("x")
ThinExt == UriRef("ext")
ThinNest == Obj(<<KV("@id", Str("ns1")), KV("extra", UriRef("ext"))>>)
SubSelf == El("Subsetting", "s1", <<KV("specific", Ref("s1")), KV("general", Ref("s1"))>>)
SubNs == El("Subsetting", "s2", <<KV("subsettingFeature", Ref("ns1")),
                                  KV("subsettedFeature", Ref("s2"))>>)
SpecExt == El("Specialization", "s3", <<KV("specific", Ref("s3")),
                                        KV("general", UriRef("ext"))>>)
SpecDup == El("Specialization", "ns1", <<KV("specific", Ref("ns1"))>>)
SpecList == El("Specialization", "s5", <<KV("specific", Arr(<<Ref("s5")>>)),
                                         KV("general", Arr(<<Ref("s5")>>))>>)
FeatTyping == El("FeatureTyping", "ft", <<KV("typedFeature", Ref("s1")),
                                          KV("type", UriRef("ext")),
                                          KV("general", Ref("s1"))>>)
Member == El("OwningMembership", "m1", <<KV("memberElement", Ref("x")),
                                         KV("owningNamespace", Ref("ns1"))>>)
EmptyEl == El("Empty", "e1", <<>>)
Package == El("Package", "p1", <<KV("ownedRelationship", Arr(<<
               El("Subclassification", "s4", <<KV("specific", Ref("p1")),
                                               KV("general", Ref("x"))>>),
               UriRef("ext"),
               Ref("p1")>>))>>)
NsHolder == El("Namespace", "ns4", <<KV("ownedMember", Arr(<<Ref("x"), UriRef("ext")>>))>>)
NumId == Obj(<<KV("@type", Str("Namespace")), KV("@id", Num("5"))>>)
Junk == Str("junk")

Palette == {NsRoot, NsOwned, ThinX, ThinExt, ThinNest, SubSelf, SubNs, SpecExt,
            SpecDup, SpecList, FeatTyping, Member, EmptyEl, Package, NsHolder, NumId,
            Junk}

RECURSIVE SeqsUpTo(_, _)
SeqsUpTo(S, n) ==
    IF n = 0 THEN {<<>>}
    ELSE LET shorter == SeqsUpTo(S, n - 1)
         IN  shorter \cup {Append(q, e) : q \in shorter, e \in S}

\* c1 specializes c2, c2 specializes c3, ...: the last link dangles, and every
\* iteration of the fixpoint loop cuts the chain back by two elements.
ChainId(i) == "c" \o ToString(i)
ChainEl(i) == El("Specialization", ChainId(i), <<KV("specific", Ref(ChainId(i))),
                                                 KV("general", Ref(ChainId(i + 1)))>>)
ChainDoc(n) == Arr(<<NsRoot>> \o [i \in 1..n |-> ChainEl(i)])

Envelope(q) == Obj(<<KV("name", Str("model")), KV("elements", Arr(q)),
                     KV("origin", ThinX)>>)

\* A part definition, a feature named "children" that it owns, and the
\* relationships that say so: an owning membership, an alias membership in the
\* root namespace, a membership with list-valued endpoints, an explicit typing,
\* and a second definition of the feature that already has a type.
PartDef == El("PartDefinition", "pd1", <<KV("name", Str("Drone"))>>)
Child == El("PartUsage", "f1", <<KV("name", Str("children"))>>)
ChildTyped == El("PartUsage", "f1", <<KV("name", Str("children")),
                                      KV("type", Ref("ns1"))>>)
FeatMember == El("FeatureMembership", "m2", <<KV("memberElement", Ref("f1")),
                                              KV("owningType", Ref("pd1"))>>)
AliasMember == El("Membership", "m3", <<KV("memberElement", Ref("f1")),
                                        KV("owningNamespace", Ref("ns1"))>>)
ListMember == El("OwningMembership", "m4", <<KV("feature", Arr(<<Ref("f1")>>)),
                                             KV("featuringType", Arr(<<Ref("pd1")>>))>>)
ChildTyping == El("FeatureTyping", "ft2", <<KV("typedFeature", Ref("f1")),
                                            KV("type", Ref("pd1"))>>)

ChildPalette == {ChildTyped, FeatMember, AliasMember, ListMember, ChildTyping}
ChildDoc(q) == Arr(<<NsRoot, PartDef, Child>> \o q)

ListDocs == {Arr(q) : q \in SeqsUpTo(Palette, MaxLen)}
EnvelopeDocs == {Envelope(q) : q \in SeqsUpTo(Palette, 1)}
ChainDocs == {ChainDoc(n) : n \in (MaxChain - 2)..MaxChain}
ChildDocs == {ChildDoc(q) : q \in SeqsUpTo(ChildPalette, MaxScenario)}

\* Records held by a thin reference whose own id is defined: a Subsetting
\* without endpoints and a dangling reference, directly in a top-level thin
\* reference and one level deeper, in a field of a Package.
HeldSub == El("Subsetting", "s9", <<>>)
ThinHolder == Obj(<<KV("@id", Str("ns1")), KV("held", HeldSub), KV("seen", Ref("x"))>>)
PackageHolder == El("Package", "p2", <<KV("owner", ThinHolder)>>)
HolderDocs == {Arr(<<NsRoot, ThinHolder>>), Arr(<<NsRoot, PackageHolder>>),
               Arr(<<PackageHolder>>)}

Inputs ==
    ListDocs \cup EnvelopeDocs \cup ChainDocs \cup ChildDocs \cup HolderDocs \cup Palette

----------------------------------------------------------------------------
(* utils.py: clean_sysml_json_for_syside as a state machine *)

\* debug only switches the prints: it is drawn from both values for the
\* envelopes, chains and single elements, and is at its default for the lists
\* over the palette and the "children" scenarios.
Init ==
    /\ \/ json_text \in ListDocs \cup ChildDocs /\ debug = TRUE
       \/ json_text \in Inputs \ (ListDocs \cup ChildDocs) /\ debug \in BOOLEAN
    /\ preserve \in BOOLEAN
    /\ entry = "utils"
    /\ run = 1
    /\ pc = "call"
    /\ elements = <<>>
    /\ changed = FALSE
    /\ iters = 0
    /\ protected_ids = {}
    /\ result = Null
    /\ err = "none"
    /\ diagnostics = {}
    /\ json_flexo_type = "str"
    /\ sysml_out_path = "None"
    /\ api_key = ""
    /\ project_id = ""
    /\ server = [known |-> FALSE, calls |-> <<>>]
    /\ created_project = FALSE

\* data = json.loads(json_text); root_wrapper is data when it carries a list
\* under "elements"
has_root_wrapper(data) == IsDict(data) /\ IsList(Get(data, "elements"))

\* Parse and normalize the top level, then enter the loop.
Normalize ==
    /\ pc = "call"
    /\ entry = "utils"
    /\ IF IsList(json_text)
       THEN elements' = Items(json_text) /\ pc' = "loop" /\ result' = result
       ELSE IF has_root_wrapper(json_text)
       THEN elements' = Items(Get(json_text, "elements")) /\ pc' = "loop"
            /\ result' = result
       ELSE IF IsDict(json_text)
       THEN elements' = <<json_text>> /\ pc' = "loop" /\ result' = result
       ELSE elements' = elements /\ pc' = "done" /\ result' = json_text
    /\ changed' = TRUE
    /\ iters' = 0
    /\ diagnostics' = {}
    /\ UNCHANGED <<json_flexo_type, sysml_out_path, api_key, project_id, server, created_project,
                   json_text, preserve, debug, entry, run, protected_ids, err>>

\* The lines the head of an iteration prints under debug (the reports on single
\* elements that the pruning helpers print are not recorded).  iters_now and
\* changed_now are the values of iters and changed after "iters += 1" and
\* "changed = False".
loop_head_prints(els, iters_now, changed_now) ==
    (IF iters_now >= MAX_ITERS /\ changed_now THEN {"[Warn] Hit MAX_ITERS"} ELSE {})
    \cup (IF find_root_namespace_ids_syside(els) = {}
          THEN {"[Warn] No root namespace candidates"}
          ELSE {"[Info] Protected root namespace ids"})
    \cup (IF \E i \in DOMAIN els : ~has_all_refs_defined(els[i], build_defined_ids(els))
          THEN {"[Unresolved refs]"} ELSE {})

\* Loop head and step 1 of an iteration: reindex, recompute the protected
\* ids, prune every top-level element.
Prune ==
    /\ pc = "loop"
    /\ changed /\ iters < MAX_ITERS
    /\ iters' = iters + 1
    /\ protected_ids' = find_root_namespace_ids_syside(elements)
    /\ LET defined_ids == build_defined_ids(elements)
           r == [i \in DOMAIN elements |->
                    drop_thin_dangling_refs(elements[i], defined_ids, preserve)]
           kept == SelectSeq([i \in DOMAIN elements |-> i], LAMBDA i : r[i].v # DROP)
       IN  /\ elements' = [j \in DOMAIN kept |-> r[kept[j]].v]
           /\ changed' = \E i \in DOMAIN elements : r[i].v = DROP \/ r[i].d
    /\ diagnostics' = IF debug
                      THEN diagnostics \cup loop_head_prints(elements, iters + 1, FALSE)
                      ELSE diagnostics
    /\ pc' = "filter"
    /\ UNCHANGED <<json_flexo_type, sysml_out_path, api_key, project_id, server, created_project,
                   json_text, preserve, debug, entry, run, result, err>>

\* The top-level pass decides for one element whether it is kept.
top_level_keep(el, defined_ids, protected) ==
    IF ~IsDict(el) THEN TRUE
    ELSE IF InIds(Get(el, "@id"), protected) THEN TRUE
    ELSE IF is_relationship_and_incomplete(el, defined_ids) THEN FALSE
    ELSE IF /\ Get(el, "@type") \in STRICT_REL_TO_DROP
            /\ ~has_all_refs_defined(el, defined_ids) THEN FALSE
    ELSE TRUE

\* top_level_pass whose protected branch lost its "continue": the element is
\* appended a second time at the end of the loop body
top_level_pass_twice(els, defined_ids, protected) ==
    Flatten([i \in DOMAIN els |->
        IF IsDict(els[i]) /\ InIds(Get(els[i], "@id"), protected)
        THEN <<els[i], els[i]>>
        ELSE IF top_level_keep(els[i], defined_ids, protected) THEN <<els[i]>> ELSE <<>>])

\* kept = [] ... for el in elements: ... kept.append(el)
top_level_pass(els, defined_ids, protected) ==
    Flatten([i \in DOMAIN els |->
        IF top_level_keep(els[i], defined_ids, protected) THEN <<els[i]>> ELSE <<>>])

\* Step 2 of an iteration: reindex and filter the top-level elements.
Filter ==
    /\ pc = "filter"
    /\ LET kept == top_level_pass(elements, build_defined_ids(elements), protected_ids)
       IN  /\ elements' = kept
           /\ changed' = (changed \/ \E i \in DOMAIN elements :
                             ~top_level_keep(elements[i], build_defined_ids(elements),
                                             protected_ids))
    /\ pc' = "loop"
    /\ UNCHANGED <<json_flexo_type, sysml_out_path, api_key, project_id, server, created_project,
                   json_text, preserve, debug, diagnostics, entry, run,
                   iters, protected_ids, result, err>>

\* rebuild that returns a fresh {"elements": ...} instead of a copy of the wrapper
rebuild_elements_only(data, els) ==
    IF has_root_wrapper(data)
    THEN Obj(<<KV("elements", Arr(els))>>)
    ELSE IF IsList(data) THEN Arr(els)
    ELSE IF Len(els) = 1 THEN els[1]
    ELSE Arr(els)

\* The value the function returns for the final element list.
rebuild(data, els) ==
    IF has_root_wrapper(data)
    THEN [data EXCEPT !.c = [i \in DOMAIN data.c |->
             IF data.c[i].key = "elements" THEN KV("elements", Arr(els))
             ELSE data.c[i]]]
    ELSE IF IsList(data) THEN Arr(els)
    ELSE IF Len(els) = 1 THEN els[1]
    ELSE Arr(els)

\* Loop exit, type injection and the rebuilt result.
Finish ==
    /\ pc = "loop"
    /\ ~(changed /\ iters < MAX_ITERS)
    /\ elements' = _inject_inferred_types(elements)
    /\ result' = rebuild(json_text, elements')
    /\ diagnostics' = IF debug THEN diagnostics \cup {"[Done] Iterations"} ELSE diagnostics
    /\ pc' = "done"
    /\ UNCHANGED <<json_flexo_type, sysml_out_path, api_key, project_id, server, created_project,
                   json_text, preserve, debug, entry, run, changed, iters, protected_ids, err>>

\* The caller applies the sanitizer to the document it just returned.
Reapply ==
    /\ pc = "done"
    /\ entry = "utils"
    /\ run < MaxRuns
    /\ json_text' = result
    /\ run' = run + 1
    /\ pc' = "call"
    /\ UNCHANGED <<json_flexo_type, sysml_out_path, api_key, project_id, server, created_project,
                   preserve, debug, diagnostics, entry, elements, changed, iters,
                   protected_ids, result, err>>

Next == Normalize \/ Prune \/ Filter \/ Finish \/ Reapply

Spec == Init /\ [][Next]_vars

----------------------------------------------------------------------------
(* core.py: the sanitizer the import pipeline calls *)

\* k.startswith("@") for the field names that occur in the documents
StartsWithAt(key) == key \in {"@id", "@type", "@uri"}

core_build_defined_ids(els) ==
    {Get(els[i], "@id").s : i \in {j \in DOMAIN els :
                                      IsDict(els[j]) /\ IsStr(Get(els[j], "@id"))}}

is_thin_ref(obj) ==
    /\ IsDict(obj)
    /\ HasKey(obj, "@id")
    /\ ~HasKey(obj, "@type")
    /\ \A i \in DOMAIN obj.c : StartsWithAt(obj.c[i].key)

RECURSIVE core_drop_thin_dangling_refs(_, _, _)
core_drop_thin_dangling_refs(obj, defined_ids, keep_uri) ==
    IF is_thin_ref(obj)
    THEN IF ~InIds(Get(obj, "@id"), defined_ids)
         THEN IF keep_uri /\ has_uri(obj) THEN obj ELSE DROP
         ELSE obj
    ELSE IF IsDict(obj) \/ IsList(obj)
    THEN LET r == [i \in DOMAIN obj.c |->
                      core_drop_thin_dangling_refs(obj.c[i].val, defined_ids, keep_uri)]
             kept == SelectSeq([i \in DOMAIN obj.c |-> i], LAMBDA i : r[i] # DROP)
         IN  [obj EXCEPT !.c = [j \in DOMAIN kept |->
                                   KV(obj.c[kept[j]].key, r[kept[j]])]]
    ELSE obj

core_has_ref_key(el, name) == IsDict(Get(el, name)) /\ HasKey(Get(el, name), "@id")

core_is_relationship_and_incomplete(el) ==
    LET t == Get(el, "@type")
        h(name) == core_has_ref_key(el, name)
    IN  CASE t = Str("Subsetting") ->
                ~((h("specific") /\ h("general"))
                  \/ (h("subsettingFeature") /\ h("subsettedFeature")))
          [] t = Str("Specialization") -> ~(h("specific") /\ h("general"))
          [] t = Str("FeatureTyping") ->
                ~(h("typedFeature") /\ (h("type") \/ h("general")))
          [] t = Str("FeatureValue") -> ~(h("featureWithValue") /\ h("value"))
          [] OTHER -> FALSE

\* for i, element in enumerate(obj): returns the exception the scan raises and
\* the position of the root namespace (0 for None).
RECURSIVE scan_root_namespace(_, _, _)
scan_root_namespace(obj, i, found) ==
    IF i > Len(obj) THEN [err |-> "none", found |-> found]
    ELSE IF ~IsDict(obj[i]) THEN [err |-> "TypeError", found |-> found]
    ELSE IF ~HasKey(obj[i], "@type") THEN [err |-> "KeyError", found |-> found]
    ELSE IF Get(obj[i], "@type") = Str("Namespace")
            /\ ~HasKey(obj[i], "owningRelationship")
    THEN IF found # 0 THEN [err |-> "AssertionError", found |-> found]
         ELSE scan_root_namespace(obj, i + 1, i)
    ELSE scan_root_namespace(obj, i + 1, found)

\* move_to_front without the pop: obj.insert(0, obj[i])
move_to_front_copy(obj, i) ==
    <<obj[i]>> \o obj

\* obj.insert(0, obj.pop(i))
move_to_front(obj, i) ==
    <<obj[i]>> \o SubSeq(obj, 1, i - 1) \o SubSeq(obj, i + 1, Len(obj))

\* [err, out] of _make_root_namespace_first(json.dumps(doc))
_make_root_namespace_first(doc) ==
    IF IsList(doc)
    THEN LET sc == scan_root_namespace(Items(doc), 1, 0)
         IN  IF sc.err # "none" THEN [err |-> sc.err, out |-> Null]
             ELSE IF sc.found # 0
             THEN [err |-> "none", out |-> Arr(move_to_front(Items(doc), sc.found))]
             ELSE [err |-> "ValueError", out |-> Null]
    ELSE IF (IsDict(doc) \/ IsStr(doc)) /\ ~Truthy(doc)
    THEN [err |-> "ValueError", out |-> Null]   \* nothing to iterate over
    ELSE [err |-> "TypeError", out |-> Null]    \* keys, characters, or not iterable

NsOwnedOk == El("Namespace", "ns3", <<KV("owningRelationship", Ref("ns1"))>>)
NoType == Obj(<<KV("name", Str("foo"))>>)
NamedRef == Obj(<<KV("@id", Str("x")), KV("name", Str("n"))>>)
Elem == Obj(<<KV("@type", Str("Element"))>>)
NsPlain == Obj(<<KV("@type", Str("Namespace"))>>)
NsStamped(ts) == Obj(<<KV("@type", Str("Namespace")), KV("qualifiedName", Str(ts))>>)
SubHalf == El("Subsetting", "s6", <<KV("specific", Ref("ns1")), KV("general", Ref("x"))>>)

ImportPalette == {NsRoot, NsOwned, NsOwnedOk, ThinX, ThinExt, NoType, NamedRef, Elem,
                  NsPlain, NsStamped("2020-01-01T00:00:00Z"),
                  NsStamped("2021-01-01T00:00:00Z"), SubHalf, Package, Junk}

ImportInputs ==
    {Arr(q) : q \in SeqsUpTo(ImportPalette, MaxLen)}
        \cup {Envelope(q) : q \in SeqsUpTo(ImportPalette, 1)}
        \cup {NsRoot, Elem, Junk, Str("")}

\* json_flexo given as a Python object instead of JSON text: a dict, a list, or
\* a value of another type (an int, a float, None).
ObjectInputs ==
    {Arr(q) : q \in SeqsUpTo(ImportPalette, 1)}
        \cup {NsRoot, Elem, Num("123"), Num("1.5"), Null}

\* type(json_flexo).__name__ of an object argument
type_name(v) ==
    IF IsDict(v) THEN "dict"
    ELSE IF IsList(v) THEN "list"
    ELSE IF v = Null THEN "NoneType"
    ELSE IF v.k = "num" THEN "number"
    ELSE "str"

\* A call of convert_json_to_sysml_textual(json_flexo, sysml_out_path), with
\* json_flexo a JSON text (json_text is what it parses to) or an object, or a
\* direct call of _make_root_namespace_first(json_str).
InitImport ==
    /\ entry \in {"convert", "reorder"}
    /\ \/ json_text \in ImportInputs /\ json_flexo_type = "str"
       \/ entry = "convert" /\ json_text \in ObjectInputs
            /\ json_flexo_type = type_name(json_text)
    /\ sysml_out_path \in (IF entry = "convert" THEN {"None", "str"} ELSE {"None"})
    /\ api_key = ""
    /\ project_id = ""
    /\ server = [known |-> FALSE, calls |-> <<>>]
    /\ created_project = FALSE
    /\ preserve = TRUE
    /\ run = 1
    /\ pc = "call"
    /\ elements = <<>>
    /\ changed = FALSE
    /\ iters = 0
    /\ protected_ids = {}
    /\ result = Null
    /\ err = "none"
    /\ debug = FALSE
    /\ diagnostics = {}

\* The head of convert_json_to_sysml_textual: the output path is turned into a
\* URI (a pathlib.Path has as_uri, a str has not), then json_flexo is
\* normalized to a JSON string or rejected by its type.
ConvertEntry ==
    /\ pc = "call"
    /\ entry = "convert"
    /\ IF sysml_out_path = "str"
       THEN err' = "AttributeError" /\ pc' = "done"
       ELSE IF json_flexo_type \in {"dict", "list", "str"}
       THEN err' = err /\ pc' = "clean"
       ELSE err' = "TypeError" /\ pc' = "done"
    /\ UNCHANGED <<json_flexo_type, sysml_out_path, api_key, project_id, server, created_project,
                   json_text, preserve, debug, diagnostics, entry, run,
                   elements, changed, iters, protected_ids, result>>

\* convert_json_to_sysml_textual hands the document to the sanitizer, which
\* parses it and normalizes the top level.
CoreNormalize ==
    /\ pc = "clean"
    /\ entry = "convert"
    /\ IF IsList(json_text)
       THEN elements' = Items(json_text) /\ pc' = "core_loop" /\ result' = result
       ELSE IF has_root_wrapper(json_text)
       THEN elements' = Items(Get(json_text, "elements")) /\ pc' = "core_loop"
            /\ result' = result
       ELSE IF IsDict(json_text)
       THEN elements' = <<json_text>> /\ pc' = "core_loop" /\ result' = result
       ELSE elements' = elements /\ pc' = "reorder" /\ result' = json_text
    /\ changed' = TRUE
    /\ UNCHANGED <<json_flexo_type, sysml_out_path, api_key, project_id, server, created_project,
                   json_text, preserve, debug, diagnostics, entry, run, iters, protected_ids, err>>

\* CoreIterate whose prune raises "changed" for nested removals as well, the
\* way the ref_drops flag of utils.py does
CoreIterate_flag_nested ==
    /\ pc = "core_loop"
    /\ changed
    /\ LET defined_ids == core_build_defined_ids(elements)
           r == [i \in DOMAIN elements |->
                    core_drop_thin_dangling_refs(elements[i], defined_ids, preserve)]
           new_elements == SelectSeq(r, LAMBDA v : v # DROP)
           kept == SelectSeq(new_elements,
                       LAMBDA el : ~(IsDict(el) /\ core_is_relationship_and_incomplete(el)))
       IN  /\ elements' = kept
           /\ changed' = (kept # elements)
    /\ UNCHANGED <<json_flexo_type, sysml_out_path, api_key, project_id, server, created_project,
                   json_text, preserve, debug, diagnostics, entry, run,
                   pc, iters, protected_ids, result, err>>

\* One iteration of "while changed".
CoreIterate ==
    /\ pc = "core_loop"
    /\ changed
    /\ LET defined_ids == core_build_defined_ids(elements)
           r == [i \in DOMAIN elements |->
                    core_drop_thin_dangling_refs(elements[i], defined_ids, preserve)]
           new_elements == SelectSeq(r, LAMBDA v : v # DROP)
           kept == SelectSeq(new_elements,
                       LAMBDA el : ~(IsDict(el) /\ core_is_relationship_and_incomplete(el)))
       IN  /\ elements' = kept
           /\ changed' = \/ \E i \in DOMAIN r : r[i] = DROP
                          \/ \E j \in DOMAIN new_elements :
                                /\ IsDict(new_elements[j])
                                /\ core_is_relationship_and_incomplete(new_elements[j])
    /\ UNCHANGED <<json_flexo_type, sysml_out_path, api_key, project_id, server, created_project,
                   json_text, preserve, debug, diagnostics, entry, run,
                   pc, iters, protected_ids, result, err>>

\* Loop exit: the rebuilt document is json_clean.
CoreFinish ==
    /\ pc = "core_loop"
    /\ ~changed
    /\ result' = rebuild(json_text, elements)
    /\ pc' = "reorder"
    /\ UNCHANGED <<json_flexo_type, sysml_out_path, api_key, project_id, server, created_project,
                   json_text, preserve, debug, diagnostics, entry, run, elements, changed, iters,
                   protected_ids, err>>

\* _make_root_namespace_first, on json_clean inside the pipeline or on the
\* caller's document when called directly.
MakeRootFirst ==
    /\ \/ pc = "reorder"
       \/ pc = "call" /\ entry = "reorder"
    /\ LET r == _make_root_namespace_first(IF entry = "reorder" THEN json_text ELSE result)
       IN  result' = r.out /\ err' = r.err
    /\ pc' = "done"
    /\ UNCHANGED <<json_flexo_type, sysml_out_path, api_key, project_id, server, created_project,
                   json_text, preserve, debug, diagnostics, entry, run,
                   elements, changed, iters, protected_ids>>

NextImport == ConvertEntry \/ CoreNormalize \/ CoreIterate \/ CoreFinish \/ MakeRootFirst

SpecImport == InitImport /\ [][NextImport]_vars

\* Documents for the termination of the loop: SubOnSub is complete only as long
\* as SubHalf, which the first iteration removes, is defined.
SubOnSub == El("Subsetting", "s7", <<KV("specific", Ref("s6")), KV("general", Ref("s7"))>>)
FairPalette == {NsRoot, NsOwned, ThinX, SubHalf, SubOnSub, Package}
FairInputs == {Arr(q) : q \in SeqsUpTo(FairPalette, MaxLen)}

\* Calls of the import pipeline on a JSON text with the default output path;
\* the interpreter keeps executing a call that has a next statement.
InitImportFair ==
    /\ json_text \in FairInputs
    /\ json_flexo_type = "str"
    /\ sysml_out_path = "None"
    /\ entry = "convert"
    /\ preserve = TRUE
    /\ run = 1
    /\ pc = "call"
    /\ elements = <<>>
    /\ changed = FALSE
    /\ iters = 0
    /\ protected_ids = {}
    /\ result = Null
    /\ err = "none"
    /\ debug = FALSE
    /\ diagnostics = {}
    /\ api_key = ""
    /\ project_id = ""
    /\ server = [known |-> FALSE, calls |-> <<>>]
    /\ created_project = FALSE

SpecImportFair == InitImportFair /\ [][NextImport]_vars /\ WF_vars(NextImport)

\* Both sanitizers, each called on its own documents.
InitSanitizers == Init \/ InitImport
NextSanitizers == Next \/ NextImport
SpecSanitizers == InitSanitizers /\ [][NextSanitizers]_vars

----------------------------------------------------------------------------
(* core.py: the export side, from serialized elements to the commit payload *)

\* _replace_none_with_empty without its list branch: a list is returned as it is
RECURSIVE _replace_none_with_empty_no_lists(_)
_replace_none_with_empty_no_lists(obj) ==
    IF IsDict(obj)
    THEN [obj EXCEPT !.c = [i \in DOMAIN @ |->
             KV(@[i].key, IF @[i].val = Null THEN Str("")
                          ELSE _replace_none_with_empty_no_lists(@[i].val))]]
    ELSE obj

\* _replace_none_with_empty that tests "is None" first: list items are replaced too
RECURSIVE _replace_none_with_empty_items(_)
_replace_none_with_empty_items(obj) ==
    IF obj = Null THEN Str("")
    ELSE IF IsDict(obj) \/ IsList(obj)
    THEN [obj EXCEPT !.c = [i \in DOMAIN @ |->
             KV(@[i].key, _replace_none_with_empty_items(@[i].val))]]
    ELSE obj

RECURSIVE _replace_none_with_empty(_)
_replace_none_with_empty(obj) ==
    IF IsDict(obj)
    THEN [obj EXCEPT !.c = [i \in DOMAIN @ |->
             KV(@[i].key, IF @[i].val = Null THEN Str("")
                          ELSE _replace_none_with_empty(@[i].val))]]
    ELSE IF IsList(obj)
    THEN [obj EXCEPT !.c = [i \in DOMAIN @ |->
             KV("", _replace_none_with_empty(@[i].val))]]
    ELSE obj

\* _remove_uri_fields without its list branch
RECURSIVE _remove_uri_fields_no_lists(_)
_remove_uri_fields_no_lists(obj) ==
    IF IsDict(obj)
    THEN LET kept == SelectSeq(obj.c, LAMBDA e : e.key # "@uri")
         IN  [obj EXCEPT !.c = [i \in DOMAIN kept |->
                                   KV(kept[i].key, _remove_uri_fields_no_lists(kept[i].val))]]
    ELSE obj

RECURSIVE _remove_uri_fields(_)
_remove_uri_fields(obj) ==
    IF IsDict(obj)
    THEN LET kept == SelectSeq(obj.c, LAMBDA e : e.key # "@uri")
         IN  [obj EXCEPT !.c = [i \in DOMAIN kept |->
                                   KV(kept[i].key, _remove_uri_fields(kept[i].val))]]
    ELSE IF IsList(obj)
    THEN [obj EXCEPT !.c = [i \in DOMAIN @ |-> KV("", _remove_uri_fields(@[i].val))]]
    ELSE obj

\* wrap_element that builds the identity without asking '"@id" in clean_element'
wrap_element_always_identity(element) ==
    LET element_no_none == _replace_none_with_empty(element)
        clean_element == _remove_uri_fields(element_no_none)
    IN  IF ~IsDict(element_no_none)
        THEN [err |-> "AttributeError", item |-> Null]
        ELSE [err |-> "none",
              item |-> Obj(<<KV("payload", clean_element),
                             KV("identity",
                                Obj(<<KV("@id", Get(clean_element, "@id"))>>))>>)]

\* The body of "for element in data": the exception it raises and the item it
\* appends to transformed.
wrap_element(element) ==
    LET element_no_none == _replace_none_with_empty(element)
        clean_element == _remove_uri_fields(element_no_none)
    IN  IF ~(IsDict(element_no_none) \/ IsList(element_no_none))
        THEN [err |-> "AttributeError", item |-> Null]      \* no .copy()
        ELSE IF IsList(clean_element)
        THEN IF \E i \in DOMAIN clean_element.c : clean_element.c[i].val = Str("@id")
             THEN [err |-> "AttributeError", item |-> Null] \* no .get()
             ELSE [err |-> "none",
                   item |-> Obj(<<KV("payload", clean_element),
                                  KV("identity", Obj(<<>>))>>)]
        ELSE [err |-> "none",
              item |-> Obj(<<KV("payload", clean_element),
                             KV("identity",
                                IF HasKey(clean_element, "@id")
                                THEN Obj(<<KV("@id", Get(clean_element, "@id"))>>)
                                ELSE Obj(<<>>))>>)]

\* Serialized elements as the tests of core.py write them.
WithNull == Obj(<<KV("@id", Str("ID1")), KV("@uri", Str("ignore")), KV("name", Null)>>)
WithListNull == Obj(<<KV("name", Str("X")), KV("props", Arr(<<Null, Num("1")>>))>>)
NullId == Obj(<<KV("@id", Null), KV("a", Obj(<<KV("@uri", Str("y")), KV("b", Null)>>))>>)
OnlyUri == Obj(<<KV("@uri", Str("z"))>>)
Deep == Obj(<<KV("c", Arr(<<Obj(<<KV("@uri", Str("z"))>>), Obj(<<KV("d", Null)>>),
                            Arr(<<Null, Obj(<<KV("e", Null), KV("@uri", Null)>>)>>)>>))>>)
NullItems == Arr(<<Null>>)
IdItem == Arr(<<Str("@id")>>)

ExportPalette == {WithNull, WithListNull, NullId, OnlyUri, Deep, NsRoot, NullItems,
                  IdItem, Junk}

ExportDocs == {Arr(q) : q \in SeqsUpTo(ExportPalette, MaxLen)}
ExportValues == ExportDocs \cup ExportPalette \cup {Null, Num("1"), Str(""), Obj(<<>>)}

InitExport ==
    /\ entry \in {"replace_none", "remove_uri", "wrap", "commit"}
    /\ json_text \in (IF entry = "commit" THEN ExportDocs ELSE ExportValues)
    /\ preserve = TRUE
    /\ run = 1
    /\ pc = "call"
    /\ elements = <<>>
    /\ changed = FALSE
    /\ iters = 0
    /\ protected_ids = {}
    /\ result = Null
    /\ err = "none"
    /\ debug = FALSE
    /\ diagnostics = {}
    /\ json_flexo_type = "str"
    /\ sysml_out_path = "None"
    /\ api_key \in (IF entry = "commit" THEN {"", "key"} ELSE {""})
    /\ project_id \in (IF entry = "commit" THEN {"", "P1"} ELSE {""})
    /\ server \in [known : (IF entry = "commit" THEN BOOLEAN ELSE {FALSE}), calls : {<<>>}]
    /\ created_project = FALSE

\* A direct call of _replace_none_with_empty.
ReplaceNone ==
    /\ pc = "call" /\ entry = "replace_none"
    /\ result' = _replace_none_with_empty(json_text)
    /\ pc' = "done"
    /\ UNCHANGED <<json_flexo_type, sysml_out_path, api_key, project_id, server, created_project,
                   json_text, preserve, debug, diagnostics, entry, run, elements, changed, iters,
                   protected_ids, err>>

\* A direct call of _remove_uri_fields.
RemoveUri ==
    /\ pc = "call" /\ entry = "remove_uri"
    /\ result' = _remove_uri_fields(json_text)
    /\ pc' = "done"
    /\ UNCHANGED <<json_flexo_type, sysml_out_path, api_key, project_id, server, created_project,
                   json_text, preserve, debug, diagnostics, entry, run, elements, changed, iters,
                   protected_ids, err>>

\* What a failing conversion looks like to the caller: commit_sysml_to_flexo
\* wraps every exception of the conversion in a RuntimeError.
raised(e) == IF entry = "commit" THEN "RuntimeError: SysML text conversion failed" ELSE e

\* _wrap_elements_as_payload(data) is entered, directly or with the data that
\* convert_sysml_string_textual_to_json has loaded from the serialized model:
\* transformed = [] and the iteration over data begins.
WrapStart ==
    /\ \/ pc = "call" /\ entry = "wrap"
       \/ pc = "convert" /\ entry = "commit"
    /\ elements' = <<>>
    /\ iters' = 0
    /\ IF IsList(json_text)
       THEN pc' = "wrap_loop" /\ err' = err
       ELSE IF (IsDict(json_text) \/ IsStr(json_text)) /\ ~Truthy(json_text)
       THEN pc' = "wrap_loop" /\ err' = err     \* nothing to iterate over
       ELSE IF IsDict(json_text) \/ IsStr(json_text)
       THEN pc' = "done" /\ err' = raised("AttributeError")  \* keys, characters
       ELSE pc' = "done" /\ err' = raised("TypeError")       \* not iterable
    /\ UNCHANGED <<json_flexo_type, sysml_out_path, api_key, project_id, server, created_project,
                   json_text, preserve, debug, diagnostics, entry, run,
                   changed, protected_ids, result>>

\* One iteration of "for element in data".
WrapStep ==
    /\ pc = "wrap_loop"
    /\ iters < Len(json_text.c)
    /\ LET w == wrap_element(json_text.c[iters + 1].val)
       IN  IF w.err # "none"
           THEN /\ err' = raised(w.err)
                /\ pc' = "done"
                /\ UNCHANGED <<elements, iters>>
           ELSE /\ elements' = Append(elements, w.item)
                /\ iters' = iters + 1
                /\ UNCHANGED <<err, pc>>
    /\ UNCHANGED <<json_flexo_type, sysml_out_path, api_key, project_id, server, created_project,
                   json_text, preserve, debug, diagnostics, entry, run,
                   changed, protected_ids, result>>

\* return transformed; the conversion functions return it as their own result.
WrapReturn ==
    /\ pc = "wrap_loop"
    /\ iters = Len(json_text.c)
    /\ result' = Arr(elements)
    /\ pc' = IF entry = "commit" THEN "unpack" ELSE "done"
    /\ UNCHANGED <<json_flexo_type, sysml_out_path, api_key, project_id, server, created_project,
                   json_text, preserve, debug, diagnostics, entry, run, elements, changed, iters,
                   protected_ids, err>>

\* committer.py: change_payload_str, _ = convert_sysml_string_textual_to_json(...)
\* unpacks the returned list; any other length than two raises ValueError,
\* which the enclosing try turns into RuntimeError.
Unpack ==
    /\ pc = "unpack"
    /\ IF Len(result.c) = 2
       THEN result' = result.c[1].val /\ err' = err /\ pc' = "resolve"
       ELSE result' = Null /\ err' = raised("ValueError") /\ pc' = "done"
    /\ UNCHANGED <<json_flexo_type, sysml_out_path, api_key, project_id, server, created_project,
                   json_text, preserve, debug, diagnostics, entry, run, elements, changed, iters,
                   protected_ids>>

\* commit_sysml_to_flexo is entered: the API key is the argument or the
\* environment variable, and the call ends here when neither is set.
CommitEntry ==
    /\ pc = "call" /\ entry = "commit"
    /\ IF api_key = ""
       THEN err' = "EnvironmentError" /\ pc' = "done"
       ELSE err' = err /\ pc' = "client"
    /\ UNCHANGED <<json_flexo_type, sysml_out_path, api_key, project_id, server, created_project,
                   json_text, preserve, debug, diagnostics, entry, run, elements, changed, iters,
                   protected_ids, result>>

\* client = SysMLV2Client(...): built, or the failure is raised as RuntimeError.
ClientInit ==
    /\ pc = "client"
    /\ \E ok \in BOOLEAN :
         IF ok THEN err' = err /\ pc' = "convert"
         ELSE err' = "RuntimeError: Failed to initialize SysMLV2Client" /\ pc' = "done"
    /\ UNCHANGED <<json_flexo_type, sysml_out_path, api_key, project_id, server, created_project,
                   json_text, preserve, debug, diagnostics, entry, run, elements, changed, iters,
                   protected_ids, result>>

\* ResolveProject that ignores what the lookup found and always goes on to
\* create the project
ResolveProject_create_always ==
    /\ pc = "resolve"
    /\ IF project_id # ""
       THEN server' = server /\ err' = err /\ pc' = "commit_call"
       ELSE /\ server' = [server EXCEPT !.calls = Append(@, "get_project_by_name")]
            /\ \E ok \in BOOLEAN :
                 IF ~ok THEN err' = "Exception: get_project_by_name" /\ pc' = "done"
                 ELSE err' = err /\ pc' = "create"
    /\ UNCHANGED <<json_flexo_type, sysml_out_path, api_key, project_id, created_project,
                   json_text, preserve, debug, diagnostics, entry, run, elements, changed, iters,
                   protected_ids, result>>

\* "Resolve or create project": a supplied project_id is used as it is;
\* otherwise the server is asked for the project by name (the call may raise,
\* which ends commit_sysml_to_flexo), and a project that is not found is
\* created next.
ResolveProject ==
    /\ pc = "resolve"
    /\ IF project_id # ""
       THEN server' = server /\ err' = err /\ pc' = "commit_call"
       ELSE /\ server' = [server EXCEPT !.calls = Append(@, "get_project_by_name")]
            /\ \E ok \in BOOLEAN :
                 IF ~ok THEN err' = "Exception: get_project_by_name" /\ pc' = "done"
                 ELSE IF server.known THEN err' = err /\ pc' = "commit_call"
                 ELSE err' = err /\ pc' = "create"
    /\ UNCHANGED <<json_flexo_type, sysml_out_path, api_key, project_id, created_project,
                   json_text, preserve, debug, diagnostics, entry, run, elements, changed, iters,
                   protected_ids, result>>

\* create_sysml_project(client, project_name): the server creates the project,
\* or the call raises.
CreateProject ==
    /\ pc = "create"
    /\ \E ok \in BOOLEAN :
         IF ok
         THEN /\ server' = [known |-> TRUE,
                            calls |-> Append(server.calls, "create_sysml_project")]
              /\ created_project' = TRUE
              /\ err' = err /\ pc' = "commit_call"
         ELSE /\ server' = [server EXCEPT !.calls = Append(@, "create_sysml_project")]
              /\ created_project' = created_project
              /\ err' = "Exception: create_sysml_project" /\ pc' = "done"
    /\ UNCHANGED <<json_flexo_type, sysml_out_path, api_key, project_id,
                   json_text, preserve, debug, diagnostics, entry, run, elements, changed, iters,
                   protected_ids, result>>

\* commit_to_project(client, proj_id, change_payload_str): it returns a commit
\* id, raises, or returns without an id; the last two are RuntimeErrors.
CommitCall ==
    /\ pc = "commit_call"
    /\ server' = [server EXCEPT !.calls = Append(@, "commit_to_project")]
    /\ \E outcome \in {"id", "raise", "no id"} :
         err' = CASE outcome = "id" -> err
                  [] outcome = "raise" -> "RuntimeError: Commit operation failed"
                  [] OTHER -> "RuntimeError: Commit failed"
    /\ pc' = "done"
    /\ UNCHANGED <<json_flexo_type, sysml_out_path, api_key, project_id, created_project,
                   json_text, preserve, debug, diagnostics, entry, run, elements, changed, iters,
                   protected_ids, result>>

NextExport ==
    \/ ReplaceNone \/ RemoveUri \/ WrapStart \/ WrapStep \/ WrapReturn
    \/ CommitEntry \/ ClientInit \/ Unpack \/ ResolveProject \/ CreateProject \/ CommitCall

SpecExport == InitExport /\ [][NextExport]_vars

----------------------------------------------------------------------------
(* Properties of utils.clean_sysml_json_for_syside *)

\* The element list the function starts from.
InputElements(data) ==
    IF IsList(data) THEN Items(data)
    ELSE IF has_root_wrapper(data) THEN Items(Get(data, "elements"))
    ELSE IF IsDict(data) THEN <<data>>
    ELSE <<>>

InUtilsLoop == entry = "utils" /\ pc \in {"loop", "filter"}
UtilsDone == entry = "utils" /\ pc = "done"

RECURSIVE IsSubseq(_, _)
IsSubseq(a, b) ==
    IF a = <<>> THEN TRUE
    ELSE IF b = <<>> THEN FALSE
    ELSE IF Head(a) = Head(b) THEN IsSubseq(Tail(a), Tail(b))
    ELSE IsSubseq(a, Tail(b))

IdsOf(els) == [i \in DOMAIN els |-> Get(els[i], "@id")]

\* C1 (as claimed): applying the sanitizer to its own output (a list, or an
\* object carrying an "elements" list) returns exactly that output again.
C1_Idempotent ==
    (UtilsDone /\ run = 2 /\ (IsList(json_text) \/ has_root_wrapper(json_text)))
        => result = json_text

\* An endpoint is present and resolves into ids.
Resolves(el, name, ids) ==
    LET v == Get(el, name)
    IN  v.k = "obj" /\ Get(v, "@id").k = "str" /\ Get(v, "@id").s \in ids

BothEndpoints(el, ids) ==
    \/ Resolves(el, "specific", ids) /\ Resolves(el, "general", ids)
    \/ /\ Get(el, "@type") = Str("Subsetting")
       /\ Resolves(el, "subsettingFeature", ids)
       /\ Resolves(el, "subsettedFeature", ids)

StrictKindsComplete(els) ==
    \A i \in DOMAIN els :
        Get(els[i], "@type") \in {Str("Subsetting"), Str("Specialization"),
                                  Str("Subclassification")}
            => BothEndpoints(els[i], build_defined_ids(els))

\* C2 (as claimed): every strict-kind element of the output has both required
\* endpoints, each resolving into the DefinedIds of the output itself.
C2_StrictComplete == UtilsDone => StrictKindsComplete(elements)

\* C2 (amended): the same, for every run whose loop stopped because its last
\* iteration changed nothing (and not because the iteration cap was reached).
C2_StrictCompleteAtFixpoint == (UtilsDone /\ ~changed) => StrictKindsComplete(elements)

\* A converged run that dropped something and returns a strict-kind element.
C2_Witness ==
    /\ UtilsDone /\ ~changed /\ iters >= 2
    /\ \E i \in DOMAIN elements : Get(elements[i], "@type") \in STRICT_REL_TO_DROP

is_root_candidate(el) ==
    /\ IsDict(el)
    /\ Get(el, "@type") = Str("Namespace")
    /\ ~HasKey(el, "owningRelationship")
    /\ IsStr(Get(el, "@id"))

RootIds(els) == IdsOf(SelectSeq(els, is_root_candidate))

\* C4: the root-namespace candidates an iteration starts with are still
\* top-level elements after its prune step and after its top-level filter, and
\* the candidates the loop ends with are top-level elements of the output.
C4_RootProtection ==
    [][entry = "utils" =>
        /\ (pc = "loop") => IsSubseq(RootIds(elements), RootIds(elements'))
        /\ (pc = "filter") =>
              IsSubseq(RootIds(SelectSeq(elements,
                           LAMBDA el : InIds(Get(el, "@id"), protected_ids))),
                       RootIds(elements'))]_vars

\* An iteration that removed something has ended and a root candidate is left.
C4_Witness ==
    InUtilsLoop /\ pc = "loop" /\ iters >= 1 /\ changed /\ RootIds(elements) # <<>>

MemberSigs(els) ==
    LET ms == SelectSeq(els, LAMBDA el : IsDict(el) /\ Get(el, "@type") \in
                  {Str("OwningMembership"), Str("FeatureMembership"),
                   Str("NamespaceMembership"), Str("Membership"),
                   Str("ParameterMembership")})
    IN  [i \in DOMAIN ms |-> <<Get(ms[i], "@type"), Get(ms[i], "@id")>>]

\* C5: the top-level membership-kind elements of the input are, in the same
\* order, the top-level membership-kind elements at every point of the loop and
\* of the output, also when one of their endpoints is unresolved.
C5_MembershipDurable ==
    (entry = "utils" /\ pc \in {"loop", "filter", "done"})
        => MemberSigs(elements) = MemberSigs(InputElements(json_text))

\* The output keeps a membership whose endpoint did not resolve in the input.
C5_Witness ==
    /\ UtilsDone
    /\ MemberSigs(elements) # <<>>
    /\ \E i \in DOMAIN InputElements(json_text) :
          LET el == InputElements(json_text)[i]
          IN  /\ Get(el, "@type") \in MEMBERSHIP_RELS
              /\ ~has_all_refs_defined(el, build_defined_ids(InputElements(json_text)))

\* C6: no step of the fixpoint loop (prune, top-level filter) and no later step
\* adds an id to DefinedIds or an element to the list.
C6_MonotonicShrink ==
    [][InUtilsLoop =>
        /\ build_defined_ids(elements') \subseteq build_defined_ids(elements)
        /\ Len(elements') <= Len(elements)]_vars

\* Two iterations have run and both DefinedIds and the list have shrunk.
C6_Witness ==
    /\ InUtilsLoop /\ iters >= 2
    /\ Len(elements) < Len(InputElements(json_text))
    /\ build_defined_ids(elements) # build_defined_ids(InputElements(json_text))

\* A thin reference that carries "@uri" and whose @id is not in ids.
IsExternalRef(v, ids) ==
    /\ v.k = "obj" /\ HasKey(v, "@id") /\ ~HasKey(v, "@type") /\ HasKey(v, "@uri")
    /\ ~(Get(v, "@id").k = "str" /\ Get(v, "@id").s \in ids)

\* The external references of v in document order, wherever they occur.
RECURSIVE AllExternal(_, _)
AllExternal(v, ids) ==
    (IF IsExternalRef(v, ids) THEN <<v>> ELSE <<>>)
        \o Flatten([i \in DOMAIN v.c |-> AllExternal(v.c[i].val, ids)])

\* The kinds of record the sanitizer removes as a whole: nested at any depth,
\* and as a top-level element.
NestedDropKinds == {Str("Empty"), Str("Subsetting"), Str("Specialization"),
                    Str("Subclassification")}
TopDropKinds == NestedDropKinds \cup {Str("FeatureTyping"), Str("TypeFeaturing"),
                                      Str("FeatureValue")}

\* The external references of v that are not enclosed in a thin reference nor
\* in a record of a removable kind: v itself must not be of a kind in here,
\* the records below it not of a kind in below.
RECURSIVE OpenExternal(_, _, _, _)
OpenExternal(v, ids, here, below) ==
    IF v.k = "obj" /\ HasKey(v, "@id") /\ ~HasKey(v, "@type")
    THEN IF IsExternalRef(v, ids) THEN <<v>> ELSE <<>>
    ELSE IF v.k = "obj" /\ Get(v, "@type") \in here
    THEN <<>>
    ELSE Flatten([i \in DOMAIN v.c |-> OpenExternal(v.c[i].val, ids, below, below)])

\* ... of the top-level elements els
OpenExternalOf(els, ids, here, below) ==
    Flatten([i \in DOMAIN els |-> OpenExternal(els[i], ids, here, below)])

InputIds == build_defined_ids(InputElements(json_text))

----------------------------------------------------------------------------
(* Properties of the import pipeline of core.py *)

\* Namespace without owningRelationship, as _make_root_namespace_first tests it
IsRootNamespace(el) ==
    el.k = "obj" /\ Get(el, "@type") = Str("Namespace") /\ ~HasKey(el, "owningRelationship")

RootPositions(doc) == {i \in DOMAIN doc.c : IsRootNamespace(doc.c[i].val)}

\* C3 (as claimed): for an element list with exactly one root-namespace
\* candidate the pipeline (sanitize, then reorder) succeeds and returns a list
\* with that candidate at index 0.
C3_RootFirstThroughPipeline ==
    (entry = "convert" /\ pc = "done" /\ IsList(json_text)
        /\ sysml_out_path = "None"
        /\ Cardinality(RootPositions(json_text)) = 1)
    => /\ err = "none"
       /\ IsList(result) /\ result.c # <<>>
       /\ IsRootNamespace(result.c[1].val)
       /\ Get(result.c[1].val, "@id")
            = Get(json_text.c[CHOOSE i \in RootPositions(json_text) : TRUE].val, "@id")

\* The ids of the full definitions (records with "@id" and "@type") of doc.
FullDefinitionIds(doc) == collect(doc)

\* A thin reference as core.py sees it (only @-prefixed keys), without "@uri",
\* whose @id names no full definition.
IsDanglingThin(v, ids) ==
    /\ v.k = "obj" /\ HasKey(v, "@id") /\ ~HasKey(v, "@type") /\ ~HasKey(v, "@uri")
    /\ \A i \in DOMAIN v.c : v.c[i].key \in {"@id", "@type", "@uri"}
    /\ ~(Get(v, "@id").k = "str" /\ Get(v, "@id").s \in ids)

RECURSIVE HasDanglingThin(_, _)
HasDanglingThin(v, ids) ==
    \/ IsDanglingThin(v, ids)
    \/ \E i \in DOMAIN v.c : HasDanglingThin(v.c[i].val, ids)

\* C8 (as claimed): the elements core.clean_sysml_json_for_syside returns hold
\* no dangling thin reference, at top level or nested; in particular
\* [Namespace ns1, {"@id": "x"}] comes back as [Namespace ns1].
C8_NoDanglingThinAfterCoreClean ==
    (entry = "convert" /\ pc = "reorder")
    => /\ ~HasDanglingThin(Arr(elements), FullDefinitionIds(Arr(elements)))
       /\ json_text = Arr(<<NsRoot, ThinX>>) => result = Arr(<<NsRoot>>)

\* C9 (as claimed): called on a list of records none of which is a root
\* namespace, _make_root_namespace_first raises ValueError and returns nothing.
C9_NoRootRaisesValueError ==
    (entry = "reorder" /\ pc = "done" /\ IsList(json_text)
        /\ (\A i \in DOMAIN json_text.c : IsDict(json_text.c[i].val))
        /\ RootPositions(json_text) = {})
    => err = "ValueError" /\ result = Null

\* ISO-8601 instants of one format order as their text does; the documents
\* hold these two.
Instant(ts) == IF ts = Str("2020-01-01T00:00:00Z") THEN 2020
               ELSE IF ts = Str("2021-01-01T00:00:00Z") THEN 2021 ELSE 0

\* C10 (as claimed): called on a list with several root-namespace candidates,
\* each with a timestamp in qualifiedName, _make_root_namespace_first returns
\* normally with the candidate of the latest timestamp at index 0.
C10_LatestTimestampFirst ==
    (entry = "reorder" /\ pc = "done" /\ IsList(json_text)
        /\ (\A i \in DOMAIN json_text.c :
                IsDict(json_text.c[i].val) /\ HasKey(json_text.c[i].val, "@type"))
        /\ Cardinality(RootPositions(json_text)) >= 2
        /\ \A i \in RootPositions(json_text) :
                Instant(Get(json_text.c[i].val, "qualifiedName")) > 0)
    => /\ err = "none"
       /\ IsList(result) /\ result.c # <<>>
       /\ \A i \in RootPositions(json_text) :
             Instant(Get(result.c[1].val, "qualifiedName"))
                >= Instant(Get(json_text.c[i].val, "qualifiedName"))

\* C11 (as claimed): called on a list of typed records with one root-namespace
\* candidate that has no qualifiedName and another whose qualifiedName is a
\* timestamp, _make_root_namespace_first returns normally and the candidate
\* without qualifiedName is at index 0 of the returned list.
C11_UntimestampedRootWins ==
    (entry = "reorder" /\ pc = "done" /\ IsList(json_text)
        /\ (\A i \in DOMAIN json_text.c :
                IsDict(json_text.c[i].val) /\ HasKey(json_text.c[i].val, "@type"))
        /\ (\E i \in RootPositions(json_text) :
                ~HasKey(json_text.c[i].val, "qualifiedName"))
        /\ (\E i \in RootPositions(json_text) :
                Instant(Get(json_text.c[i].val, "qualifiedName")) > 0))
    => /\ err = "none"
       /\ IsList(result) /\ result.c # <<>>
       /\ IsRootNamespace(result.c[1].val)
       /\ ~HasKey(result.c[1].val, "qualifiedName")

----------------------------------------------------------------------------
(* Properties of the type injector of utils.py *)

\* The elements of a returned document.
OutputElements(doc) ==
    IF IsList(doc) THEN Items(doc)
    ELSE IF has_root_wrapper(doc) THEN Items(Get(doc, "elements"))
    ELSE <<doc>>

\* The step that ends the loop, injects the types and returns.
Returning == entry = "utils" /\ pc = "loop" /\ pc' = "done"

IsFullDefinition(el) == el.k = "obj" /\ HasKey(el, "@id") /\ HasKey(el, "@type")

\* The @id an endpoint value names: its own, or that of its first item with one.
NamedId(v) ==
    IF v.k = "obj" /\ HasKey(v, "@id") THEN Get(v, "@id")
    ELSE IF v.k = "arr" /\ \E i \in DOMAIN v.c :
                               v.c[i].val.k = "obj" /\ HasKey(v.c[i].val, "@id")
    THEN LET first == CHOOSE i \in DOMAIN v.c :
                         /\ v.c[i].val.k = "obj" /\ HasKey(v.c[i].val, "@id")
                         /\ \A j \in 1..(i - 1) :
                               ~(v.c[j].val.k = "obj" /\ HasKey(v.c[j].val, "@id"))
         IN  Get(v.c[first].val, "@id")
    ELSE Null

\* The first of the named endpoints of el that names a non-empty id.
RECURSIVE FirstNamed(_, _)
FirstNamed(el, names) ==
    IF names = <<>> THEN Null
    ELSE IF Truthy(NamedId(Get(el, Head(names)))) THEN NamedId(Get(el, Head(names)))
    ELSE FirstNamed(el, Tail(names))

IsMembershipOf(el, id) ==
    /\ el.k = "obj"
    /\ Get(el, "@type") \in {Str("OwningMembership"), Str("FeatureMembership"),
                             Str("NamespaceMembership"), Str("Membership"),
                             Str("ParameterMembership")}
    /\ FirstNamed(el, <<"memberElement", "feature">>) = id
    /\ Truthy(id)
    /\ Truthy(FirstNamed(el, <<"featuringType", "owningType", "owningNamespace">>))

OwnerIn(el) == FirstNamed(el, <<"featuringType", "owningType", "owningNamespace">>)

IsTypingOf(el, id) ==
    /\ el.k = "obj"
    /\ Get(el, "@type") \in {Str("FeatureTyping"), Str("TypeFeaturing")}
    /\ FirstNamed(el, <<"typedFeature", "feature">>) = id

\* els[i] is a full definition named "children" without type and without an
\* explicit typing relationship.
UntypedChildren(els, i) ==
    /\ IsFullDefinition(els[i])
    /\ Get(els[i], "name") = Str("children")
    /\ ~HasKey(els[i], "type")
    /\ \A j \in DOMAIN els : ~IsTypingOf(els[j], Get(els[i], "@id"))

IsPartDefinition(els, id) ==
    \E k \in DOMAIN els : /\ IsFullDefinition(els[k])
                          /\ Get(els[k], "@type") = Str("PartDefinition")
                          /\ Get(els[k], "@id") = id

\* C12 (as claimed): every top-level full definition named "children" without
\* type and without explicit typing relationship, for which a surviving
\* membership names as owner a top-level PartDefinition, has
\* type == {"@id": owner} in the output.
C12_ChildrenSelfTyped ==
    [][Returning =>
        \A i \in DOMAIN elements : \A j \in DOMAIN elements :
            (/\ UntypedChildren(elements, i)
             /\ IsMembershipOf(elements[j], Get(elements[i], "@id"))
             /\ IsPartDefinition(elements, OwnerIn(elements[j])))
            => /\ Len(OutputElements(result')) = Len(elements)
               /\ Get(OutputElements(result')[i], "type")
                    = Obj(<<KV("@id", OwnerIn(elements[j]))>>)]_vars

\* b is a with one field "type" added after its fields.
GainedType(a, b) ==
    /\ b.k = "obj" /\ b.s = a.s
    /\ Len(b.c) = Len(a.c) + 1
    /\ SubSeq(b.c, 1, Len(a.c)) = a.c
    /\ b.c[Len(b.c)].key = "type"

\* C13: the injector returns the elements it was given, in their order; each is
\* returned as it was, or is a top-level full definition (with @id and @type)
\* without type that was given a type field and nothing else.  No field is
\* overwritten or removed, no thin reference is touched.
C13_InjectionAddOnly ==
    [][Returning =>
        /\ Len(elements') = Len(elements)
        /\ \A i \in DOMAIN elements :
              \/ elements'[i] = elements[i]
              \/ /\ IsFullDefinition(elements[i])
                 /\ ~HasKey(elements[i], "type")
                 /\ GainedType(elements[i], elements'[i])]_vars

\* A first run that dropped nothing has returned a definition with an injected
\* type next to elements it left alone.
C13_Witness ==
    /\ UtilsDone /\ run = 1 /\ iters = 1
    /\ Len(elements) = Len(InputElements(json_text))
    /\ \E i \in DOMAIN elements :
          GainedType(InputElements(json_text)[i], elements[i])
    /\ \E i \in DOMAIN elements :
          /\ elements[i] = InputElements(json_text)[i]
          /\ HasKey(elements[i], "type")

----------------------------------------------------------------------------
(* Properties of the returned document, utils.py and core.py *)

\* One of the two sanitizers has returned.
SanitizerReturned ==
    \/ entry = "utils" /\ pc = "done"
    \/ entry = "convert" /\ pc = "reorder"

KeysOf(v) == [i \in DOMAIN v.c |-> v.c[i].key]

----------------------------------------------------------------------------
(* Properties of the export side of core.py *)

WrapReturned == entry = "wrap" /\ pc = "done" /\ err = "none"

AllDicts(doc) == doc.k = "arr" /\ \A i \in DOMAIN doc.c : doc.c[i].val.k = "obj"

IsScalar(v) == v.k \in {"str", "num"}

\* p has the fields of e other than "@uri", in e's order, and the scalar
\* values of e.
BuiltFrom(e, p) ==
    /\ p.k = "obj"
    /\ KeysOf(p) = SelectSeq(KeysOf(e), LAMBDA key : key # "@uri")
    /\ \A i \in DOMAIN p.c :
          IsScalar(Get(e, p.c[i].key)) => p.c[i].val = Get(e, p.c[i].key)

\* C15: _wrap_elements_as_payload never changes the list it is given, and for
\* a list of objects it returns a list of the same length whose i-th item is
\* {payload, identity} built from the i-th element, with
\* identity == {"@id": payload's @id} when the element has "@id" and {}
\* otherwise.
C15_WrapOrderIdentity ==
    [][entry = "wrap" =>
        /\ json_text' = json_text
        /\ (pc # "done" /\ pc' = "done" /\ AllDicts(json_text)) =>
              /\ err' = "none"
              /\ result'.k = "arr"
              /\ Len(result'.c) = Len(json_text.c)
              /\ \A i \in DOMAIN json_text.c :
                    LET e == json_text.c[i].val
                        item == result'.c[i].val
                    IN  /\ item.k = "obj"
                        /\ KeysOf(item) = <<"payload", "identity">>
                        /\ BuiltFrom(e, Get(item, "payload"))
                        /\ Get(item, "identity") =
                              IF HasKey(e, "@id")
                              THEN Obj(<<KV("@id", Get(Get(item, "payload"), "@id"))>>)
                              ELSE Obj(<<>>)]_vars

\* Two different elements were wrapped, the first without and the second with
\* an @id.
C15_Witness ==
    /\ WrapReturned /\ AllDicts(json_text)
    /\ Len(result.c) = 2
    /\ Get(result.c[1].val, "identity") = Obj(<<>>)
    /\ Get(result.c[2].val, "identity") = Obj(<<KV("@id", Str("ID1"))>>)
    /\ Get(result.c[1].val, "payload") # Get(result.c[2].val, "payload")

RECURSIVE HasNull(_)
HasNull(v) == v = Null \/ \E i \in DOMAIN v.c : HasNull(v.c[i].val)

\* A null that is the value of an object field, at any depth.
RECURSIVE HasNullField(_)
HasNullField(v) ==
    \E i \in DOMAIN v.c :
        \/ v.k = "obj" /\ v.c[i].val = Null
        \/ HasNullField(v.c[i].val)

\* The nulls that are list items, outside of "@uri" fields: one entry each.
RECURSIVE ItemNulls(_)
ItemNulls(v) ==
    Flatten([i \in DOMAIN v.c |->
        IF v.c[i].key = "@uri" /\ v.k = "obj" THEN <<>>
        ELSE IF v.k = "arr" /\ v.c[i].val = Null THEN <<Null>>
        ELSE ItemNulls(v.c[i].val)])

\* C16 (as claimed): after _wrap_elements_as_payload no null is left anywhere
\* inside a payload, as a field value or as a list item, at any depth.
C16_NoNullInPayloads ==
    WrapReturned =>
        \A i \in DOMAIN result.c : ~HasNull(Get(result.c[i].val, "payload"))

\* C16 (amended): after _wrap_elements_as_payload no payload holds a null as
\* the value of an object field, at any depth; the nulls that are items of a
\* list (outside of the removed "@uri" fields) are all still there.
C16_NoNullFieldInPayloads ==
    (WrapReturned /\ json_text.k = "arr") =>
        \A i \in DOMAIN result.c :
            /\ ~HasNullField(Get(result.c[i].val, "payload"))
            /\ Len(ItemNulls(Get(result.c[i].val, "payload")))
                  = Len(ItemNulls(json_text.c[i].val))

\* A payload was returned for an element that held a null in a field of an
\* object inside a list, and one as a list item.
C16_Witness ==
    /\ WrapReturned /\ json_text.k = "arr"
    /\ \E i \in DOMAIN result.c :
          /\ HasNullField(Get(json_text.c[i].val, "c"))
          /\ ItemNulls(Get(result.c[i].val, "payload")) # <<>>

\* b is a with every null field value replaced by "" and nothing else changed.
RECURSIVE NullsFilled(_, _)
NullsFilled(a, b) ==
    IF a.k = "obj"
    THEN /\ b.k = "obj" /\ KeysOf(b) = KeysOf(a)
         /\ \A i \in DOMAIN a.c :
               IF a.c[i].val = Null THEN b.c[i].val = Str("")
               ELSE NullsFilled(a.c[i].val, b.c[i].val)
    ELSE IF a.k = "arr"
    THEN /\ b.k = "arr" /\ Len(b.c) = Len(a.c)
         /\ \A i \in DOMAIN a.c :
               IF a.c[i].val = Null THEN b.c[i].val = Null
               ELSE NullsFilled(a.c[i].val, b.c[i].val)
    ELSE b = a

\* C17: _replace_none_with_empty replaces a null that is the value of an object
\* field by "" at every depth, also in objects inside lists; it leaves a null
\* that is an item of a list; keys, list lengths, order and every other value
\* stay as they are.
C17_ReplaceNone ==
    (entry = "replace_none" /\ pc = "done") =>
        err = "none" /\ NullsFilled(json_text, result)

\* The function was applied to a value with a null list item next to an object
\* with a null field, inside a list.
C17_Witness ==
    /\ entry = "replace_none" /\ pc = "done"
    /\ result # json_text
    /\ ItemNulls(result) # <<>>
    /\ \E i \in DOMAIN json_text.c :
          Get(json_text.c[i].val, "c").k = "arr"
          /\ HasNullField(Get(json_text.c[i].val, "c"))

RECURSIVE HasUriKey(_)
HasUriKey(v) ==
    \E i \in DOMAIN v.c : (v.k = "obj" /\ v.c[i].key = "@uri") \/ HasUriKey(v.c[i].val)

\* b is a without its "@uri" fields and nothing else changed.
RECURSIVE UriStripped(_, _)
UriStripped(a, b) ==
    IF a.k = "obj"
    THEN LET rest == SelectSeq(a.c, LAMBDA e : e.key # "@uri")
         IN  /\ b.k = "obj" /\ KeysOf(b) = [i \in DOMAIN rest |-> rest[i].key]
             /\ \A i \in DOMAIN rest : UriStripped(rest[i].val, b.c[i].val)
    ELSE IF a.k = "arr"
    THEN /\ b.k = "arr" /\ Len(b.c) = Len(a.c)
         /\ \A i \in DOMAIN a.c : UriStripped(a.c[i].val, b.c[i].val)
    ELSE b = a

\* C18: the value _remove_uri_fields returns has no "@uri" key at any depth and
\* is otherwise its input: every other key keeps its (cleaned) value, lists
\* keep length and order, and an object that held only "@uri" is returned as
\* an empty object, in a list too.
C18_RemoveUri ==
    (entry = "remove_uri" /\ pc = "done") =>
        /\ err = "none"
        /\ ~HasUriKey(result)
        /\ UriStripped(json_text, result)

\* The function was applied to a value that held an object with "@uri" only
\* inside a list, and returned {} in its place.
C18_Witness ==
    /\ entry = "remove_uri" /\ pc = "done"
    /\ \E i \in DOMAIN json_text.c :
          LET inner == Get(json_text.c[i].val, "c")
          IN  /\ inner.k = "arr"
              /\ inner.c[1].val = Obj(<<KV("@uri", Str("z"))>>)
              /\ Get(result.c[i].val, "c").c[1].val = Obj(<<>>)
              /\ Len(Get(result.c[i].val, "c").c) = Len(inner.c)

\* A Python tuple of two components.
Pair(a, b) == [k |-> "tuple", s |-> "", c |-> <<KV("", a), KV("", b)>>]

\* C19 (as claimed): convert_sysml_string_textual_to_json returns the pair
\* (payload, json_string), payload being the list of {payload, identity} items,
\* one per serialized element, and json_string the serialized text (here the
\* document it parses to); commit_sysml_to_flexo unpacks the two components
\* without error for any number of elements and holds the payload list.
C19_ConvertReturnsPair ==
    /\ (entry = "commit" /\ pc = "unpack") =>
          /\ Len(elements) = Len(json_text.c)
          /\ result = Pair(Arr(elements), json_text)
    /\ (entry = "commit" /\ AllDicts(json_text)
            /\ (pc = "resolve" \/ err = raised("ValueError"))) =>
          /\ err = "none"
          /\ result = Arr(elements)

----------------------------------------------------------------------------
(* Diagnostics of utils.clean_sysml_json_for_syside *)

\* C20 (as claimed): when the loop of a call with debug enabled stops at the
\* cap of 12 iterations and its last iteration still made a change, the call
\* returns the partial result, raises nothing, and has printed the warning that
\* the cap was hit.
C20_CapDiagnostic ==
    (UtilsDone /\ debug /\ iters = MAX_ITERS /\ changed)
        => /\ err = "none"
           /\ result = rebuild(json_text, elements)
           /\ "[Warn] Hit MAX_ITERS" \in diagnostics

----------------------------------------------------------------------------
(* Properties of the head of convert_json_to_sysml_textual *)

\* The call has left its head: the path and the type of json_flexo were looked at.
PastConvertEntry == entry = "convert" /\ pc # "call"

\* C21: for every json_flexo that is not a dict, a list or a str, and for
\* sysml_out_path None as well as a path string, convert_json_to_sysml_textual
\* raises TypeError, and no sanitizing or reordering step has run (no element
\* list was built, no document produced).
C21_InputTypeRejected ==
    (PastConvertEntry /\ json_flexo_type \notin {"dict", "list", "str"})
    => /\ pc = "done"
       /\ err = "TypeError"
       /\ elements = <<>>
       /\ result = Null

----------------------------------------------------------------------------
(* Properties of the fixpoint driver of utils.py *)

PruneStep == entry = "utils" /\ pc = "loop" /\ pc' = "filter"
FilterStep == entry = "utils" /\ pc = "filter"

\* C22: the loop runs at most MAX_ITERS iterations; an iteration is the prune
\* over the ids and the roots of the elements it starts with, followed by the
\* top-level filter over the ids of the pruned elements; "changed" is raised
\* exactly when the iteration removed something; the loop goes on exactly
\* while the last iteration removed something and fewer than MAX_ITERS have
\* run, so it stops before the cap only after an iteration that removed nothing.
C22_BoundedFixpointDriver ==
    [][ /\ iters' <= MAX_ITERS
        /\ PruneStep =>
              /\ iters' = iters + 1
              /\ protected_ids' = find_root_namespace_ids_syside(elements)
              /\ changed' <=> (elements' # elements)
        /\ FilterStep =>
              /\ pc' = "loop"
              /\ iters' = iters
              /\ protected_ids' = protected_ids
              /\ changed' <=> (changed \/ elements' # elements)
              /\ \A i \in DOMAIN elements' :
                    (/\ IsDict(elements'[i])
                     /\ Get(elements'[i], "@type") \in STRICT_REL_TO_DROP
                     /\ ~InIds(Get(elements'[i], "@id"), protected_ids))
                    => has_all_refs_defined(elements'[i], build_defined_ids(elements))
        /\ (entry = "utils" /\ pc = "loop" /\ changed /\ iters < MAX_ITERS)
              => pc' = "filter"
        /\ (entry = "utils" /\ pc = "loop" /\ ~changed) => pc' = "done"
        /\ Returning => (iters < MAX_ITERS => ~changed)
      ]_vars

\* The loop has stopped below the cap after several iterations, the last of
\* which removed nothing.
C22_Witness == UtilsDone /\ iters >= 2 /\ iters < MAX_ITERS /\ ~changed

----------------------------------------------------------------------------
(* Termination of the fixpoint loop of core.py *)

InCoreLoop == entry = "convert" /\ pc = "core_loop"

\* C23: the "while changed" loop of core.clean_sysml_json_for_syside has no
\* cap and terminates: no iteration adds a top-level element, an iteration
\* that sets "changed" removes at least one, and the loop is left once an
\* iteration sets nothing.
C23_CoreLoopTerminates ==
    /\ [][ (InCoreLoop /\ pc' = "core_loop") =>
              /\ Len(elements') <= Len(elements)
              /\ changed' => Len(elements') < Len(elements)
         ]_vars
    /\ (InCoreLoop ~> (entry = "convert" /\ pc = "reorder"))

\* The loop has been left after two iterations that each removed a top-level
\* element, the second because of what the first removed, and a last one that
\* removed none.
C23_Witness ==
    /\ entry = "convert" /\ pc = "reorder" /\ ~changed
    /\ Len(elements) < Len(InputElements(json_text))
    /\ json_text = Arr(<<SubHalf, SubOnSub>>)

----------------------------------------------------------------------------
(* References in the document utils.clean_sysml_json_for_syside returns *)

\* A thin reference (an "@id", no "@type") without "@uri" whose id is not in ids.
IsDanglingRef(v, ids) ==
    /\ IsDict(v) /\ HasKey(v, "@id") /\ ~HasKey(v, "@type") /\ ~HasKey(v, "@uri")
    /\ ~InIds(Get(v, "@id"), ids)

RECURSIVE HasDanglingRef(_, _)
HasDanglingRef(v, ids) ==
    \/ IsDanglingRef(v, ids)
    \/ \E i \in DOMAIN v.c : HasDanglingRef(v.c[i].val, ids)

\* C24 (as claimed): when utils.clean_sysml_json_for_syside returns, every thin
\* reference without "@uri" left anywhere in the output elements, the "type"
\* references of the injector included, names an id the output defines.
C24_NoDanglingRefInResult ==
    UtilsDone
    => ~HasDanglingRef(Arr(OutputElements(result)),
                       build_defined_ids(OutputElements(result)))

----------------------------------------------------------------------------
(* The top-level filter of utils.py *)

IsStrictKind(el) == IsDict(el) /\ Get(el, "@type") \in STRICT_REL_TO_DROP

\* The elements of els the documented gate must leave alone, in their order.
NonStrict(els) == SelectSeq(els, LAMBDA el : ~IsStrictKind(el))

\* C25 (as claimed): the top-level filter removes only Subsetting,
\* Specialization and Subclassification elements; every element of another
\* kind that enters the filter leaves it, whatever its endpoints are.
C25_FilterDropsOnlyStrictKinds ==
    [][FilterStep => NonStrict(elements') = NonStrict(elements)]_vars

----------------------------------------------------------------------------
(* Endpoints given as lists *)

\* The endpoint is a non-empty list of thin references that all resolve into ids.
ListResolves(el, name, ids) ==
    LET v == Get(el, name)
    IN  /\ IsList(v) /\ v.c # <<>>
        /\ \A i \in DOMAIN v.c : is_ref_dict(v.c[i].val) /\ ref_defined(v.c[i].val, ids)

\* el with every such endpoint replaced by the first reference of its list.
SingleEndpoints(el, ids) ==
    [el EXCEPT !.c = [i \in DOMAIN @ |->
        IF /\ @[i].key \in {"specific", "general", "subsettingFeature", "subsettedFeature"}
           /\ ListResolves(el, @[i].key, ids)
        THEN KV(@[i].key, @[i].val.c[1].val)
        ELSE @[i]]]

\* C26 (as claimed): a Subsetting, Specialization or Subclassification whose
\* endpoints are lists of resolvable thin references is judged like the same
\* element with single references: flagged incomplete by
\* is_relationship_and_incomplete, and dropped by the prune, in the same cases.
C26_ListEndpointsResolvable ==
    [][PruneStep =>
        \A i \in DOMAIN elements :
            IsStrictKind(elements[i]) =>
                LET ids == build_defined_ids(elements)
                    el == elements[i]
                    single == SingleEndpoints(el, ids)
                IN  /\ is_relationship_and_incomplete(el, ids)
                        = is_relationship_and_incomplete(single, ids)
                    /\ (drop_thin_dangling_refs(el, ids, preserve).v = DROP)
                        = (drop_thin_dangling_refs(single, ids, preserve).v = DROP)
      ]_vars

----------------------------------------------------------------------------
(* Strict relationships nested inside other elements *)

\* A strict-kind record the prune must remove: incomplete, or holding a thin
\* reference to an id outside ids.
InvalidStrict(v, ids) ==
    /\ IsStrictKind(v)
    /\ \/ is_relationship_and_incomplete(v, ids)
       \/ ~has_all_refs_defined(v, ids)

RECURSIVE HasInvalidStrict(_, _)
HasInvalidStrict(v, ids) ==
    \/ InvalidStrict(v, ids)
    \/ \E i \in DOMAIN v.c : HasInvalidStrict(v.c[i].val, ids)

\* Such a record lies below el, at any depth.
NestedInvalid(el, ids) == \E i \in DOMAIN el.c : HasInvalidStrict(el.c[i].val, ids)

\* C27: the prune of one iteration removes every invalid strict-kind record
\* nested at any depth: none is left below an element the prune keeps, and
\* the iteration is marked changed whenever there was one.
C27_NestedStrictPruned ==
    [][PruneStep =>
        LET ids == build_defined_ids(elements)
        IN  /\ \A j \in DOMAIN elements' : ~NestedInvalid(elements'[j], ids)
            /\ (\E i \in DOMAIN elements : NestedInvalid(elements[i], ids)) => changed'
      ]_vars

----------------------------------------------------------------------------
(* Frame of _make_root_namespace_first *)

\* The step that runs _make_root_namespace_first, and the document it is given.
ReorderStep ==
    /\ \/ entry = "convert" /\ pc = "reorder"
       \/ entry = "reorder" /\ pc = "call"
    /\ pc' = "done"
ReorderInput == IF entry = "reorder" THEN json_text ELSE result

----------------------------------------------------------------------------
(* The root protection of the top-level filter *)

\* No two top-level elements carry the same "@id".
DistinctIds(els) ==
    \A i, j \in DOMAIN els :
        (i # j /\ IsDict(els[i]) /\ IsDict(els[j])
            /\ HasKey(els[i], "@id") /\ HasKey(els[j], "@id"))
        => Get(els[i], "@id") # Get(els[j], "@id")

\* C29: on an input with pairwise distinct top-level ids every top-level
\* filter gives the elements, and the "changed" flag, that the same filter
\* without the protected_ids shortcut gives; so the sanitizer's output is the
\* same with and without the shortcut.
C29_RootProtectionRedundant ==
    [][(FilterStep /\ DistinctIds(InputElements(json_text))) =>
        LET unprotected == top_level_pass(elements, build_defined_ids(elements), {})
        IN  /\ elements' = unprotected
            /\ changed' = (changed \/ unprotected # elements)
      ]_vars

\* A filter has run on a protected root of a distinct-id input and the
\* iteration removed something.
C29_Witness ==
    /\ entry = "utils" /\ pc = "loop" /\ iters >= 1 /\ changed
    /\ DistinctIds(InputElements(json_text))
    /\ Len(InputElements(json_text)) >= 2
    /\ \E i \in DOMAIN elements :
          IsDict(elements[i]) /\ InIds(Get(elements[i], "@id"), protected_ids)

----------------------------------------------------------------------------
(* Order of the steps of commit_sysml_to_flexo *)

\* The step reaches the server or sets created_project.
ServerStep == server' # server \/ created_project' # created_project

\* The call named last in the server's log.
LastCall(sv) == IF sv.calls = <<>> THEN "" ELSE sv.calls[Len(sv.calls)]

\* C30: every call to the server (lookup, creation, commit) is made with an
\* API key present and after the conversion has returned and been unpacked
\* without error; a call that ends with EnvironmentError or with the
\* conversion's RuntimeError has reached the server not once and created no
\* project; a project is created only when no project_id was supplied and
\* the lookup by name, made just before, found none.
C30_NoServerCallBeforeConversion ==
    [][ /\ ServerStep =>
              /\ entry = "commit"
              /\ api_key # ""
              /\ err = "none"
              /\ pc \in {"resolve", "create", "commit_call"}
              /\ Len(elements) = Len(json_text.c)
              /\ result # Null
        /\ (entry = "commit"
                /\ err' \in {"EnvironmentError", "RuntimeError: SysML text conversion failed"}) =>
              /\ server'.calls = <<>>
              /\ server'.known = server.known
              /\ ~created_project'
        /\ (LastCall(server') = "create_sysml_project" /\ server' # server) =>
              /\ project_id = ""
              /\ LastCall(server) = "get_project_by_name"
              /\ ~server.known
        /\ created_project' => LastCall(server') \in {"create_sysml_project", "commit_to_project"}
      ]_vars

\* A call without project_id has looked the project up, created it and
\* committed to it.
C30_Witness ==
    /\ entry = "commit" /\ pc = "done" /\ err = "none"
    /\ created_project
    /\ server.calls = <<"get_project_by_name", "create_sysml_project", "commit_to_project">>

====
